---- MODULE Spec2Model ----
(***************************************************************************)
(* Pre-delinquency risk prototype (app_prototype.py).                      *)
(*                                                                         *)
(* The Streamlit script is re-run from top to bottom on every widget       *)
(* interaction.  The seven sliders keep their values between runs; the     *)
(* button analyze_btn is True only in the run its click triggers, and only *)
(* that run computes and shows risk_score, risk_level, the recommendation  *)
(* and the factors table.                                                  *)
(*                                                                         *)
(* Real numbers are fixed point: the real r is the integer r * One, so     *)
(* 0.05 is 50 and 0.75 is 750.  A product of two reals is divided by One.  *)
(* Every slider value and every weight is a multiple of 0.001, so the      *)
(* weighted sum is exact; the rounding of binary floating point is not     *)
(* modelled.  random.uniform(-0.05, 0.05) is a choice among JitterValues.  *)
(***************************************************************************)
EXTENDS Integers, Sequences, FiniteSets, TLC

\* The real 1.0 (the clamp of line 29, the upper end of the float sliders).
One == 1000

\* The value of a name that the run did not assign.
None == "None"

(***************************************************************************)
(* Bounds of the exploration.                                              *)
(***************************************************************************)
\* random.uniform is explored at k * 0.05 / JitterSteps, both signs.
JitterSteps == 2
\* At most MaxDraws evaluations (draws from the random source) in a session.
MaxDraws == 2
\* At most MaxCalls direct calls of get_recommendation are logged.
MaxCalls == 2

(***************************************************************************)
(* Slider domains (st.slider(label, min, max, default, step)).             *)
(***************************************************************************)
slider(lo, hi, step) == { lo + k * step : k \in 0..((hi - lo) \div step) }

salary_delay_slider  == slider(0, 30, 1)
savings_drop_slider  == slider(0, One, 50)
utility_delay_slider == slider(0, 30, 1)
spending_drop_slider == slider(0, One, 50)
atm_increase_slider  == slider(0, 20, 1)
upi_lending_slider   == slider(0, 10, 1)
failed_debits_slider == slider(0, 5, 1)

\* The slider positions the exploration moves to: the default, the maximum
\* and a value on or next to an impact threshold (all four for the salary delay).
SalaryDelayValues  == salary_delay_slider  \cap {0, 7, 8, 15, 16, 30}
SavingsDropValues  == savings_drop_slider  \cap {0, 500, 1000}
UtilityDelayValues == utility_delay_slider \cap {0, 8, 30}
SpendingDropValues == spending_drop_slider \cap {0, 250, 1000}
AtmIncreaseValues  == atm_increase_slider  \cap {0, 10, 20}
UpiLendingValues   == upi_lending_slider   \cap {0, 3, 10}
FailedDebitsValues == failed_debits_slider \cap {0, 2, 5}

\* The outcomes of random.uniform(-0.05, 0.05) that are explored: a grid over
\* the closed interval, and the two values next to 0.
JitterMax == 50
JitterValues ==
    UNION { { (JitterMax * k) \div JitterSteps, 0 - ((JitterMax * k) \div JitterSteps) } :
            k \in 0..JitterSteps } \cup {-1, 1}

\* The arguments given to get_recommendation when it is called directly.
LevelInputs ==
    {"Critical", "High", "Medium", "Low",
     "critical", "HIGH", "Severe", "Unknown", "", "None"}

VARIABLES
    salary_delay, savings_drop, utility_delay, spending_drop,
    atm_increase, upi_lending, failed_debits,
    analyze_btn, jitter, draws,
    risk_score, risk_level, recommendation, Impact,
    calls

sliders == <<salary_delay, savings_drop, utility_delay, spending_drop,
             atm_increase, upi_lending, failed_debits>>
outputs == <<risk_score, risk_level, recommendation, Impact>>
vars == <<sliders, analyze_btn, jitter, draws, outputs, calls>>

(***************************************************************************)
(* mock_predict                                                            *)
(***************************************************************************)
Min(a, b) == IF a <= b THEN a ELSE b

\* Weights of the weighted sum, as multiples of 0.001.
W_salary_delay_days            == 30
W_savings_drop_pct             == 400
W_utility_payment_delay_days   == 20
W_discretionary_spend_drop_pct == 200
W_atm_withdrawal_increase      == 20
W_upi_lending_txn_count        == 50
W_failed_autodebit_count       == 80

\* Mutant: the utility delay weighed like the salary delay.
raw_score_swapped_weight(f) ==
    f.salary_delay_days * W_salary_delay_days +
    (f.savings_drop_pct * W_savings_drop_pct) \div One +
    f.utility_payment_delay_days * W_salary_delay_days +
    (f.discretionary_spend_drop_pct * W_discretionary_spend_drop_pct) \div One +
    f.atm_withdrawal_increase * W_atm_withdrawal_increase +
    f.upi_lending_txn_count * W_upi_lending_txn_count +
    f.failed_autodebit_count * W_failed_autodebit_count

\* The weighted sum before the jitter is added.
raw_score(f) ==
    f.salary_delay_days * W_salary_delay_days +
    (f.savings_drop_pct * W_savings_drop_pct) \div One +
    f.utility_payment_delay_days * W_utility_payment_delay_days +
    (f.discretionary_spend_drop_pct * W_discretionary_spend_drop_pct) \div One +
    f.atm_withdrawal_increase * W_atm_withdrawal_increase +
    f.upi_lending_txn_count * W_upi_lending_txn_count +
    f.failed_autodebit_count * W_failed_autodebit_count

\* Mutant: the min(1.0, ...) left out.
add_jitter_unclamped(raw, u) == raw + u

\* Mutant: the jitter taken ten times too large.
add_jitter_scaled(raw, u) == Min(One, raw + 10 * u)

\* risk_score = min(1.0, risk_score + random.uniform(-0.05, 0.05)), u the draw.
add_jitter(raw, u) == Min(One, raw + u)

\* Mutant: the band boundaries compared with > instead of >=.
classify_strict(score) ==
    IF score > 750 THEN "Critical"
    ELSE IF score > 500 THEN "High"
    ELSE IF score > 250 THEN "Medium"
    ELSE "Low"

\* The if/elif chain on risk_score.
classify(score) ==
    IF score >= 750 THEN "Critical"
    ELSE IF score >= 500 THEN "High"
    ELSE IF score >= 250 THEN "Medium"
    ELSE "Low"

\* Mutant: the score accumulates over the session's evaluations.
mock_predict_accumulating(f, u) ==
    LET score == add_jitter(raw_score(f) + draws, u)
    IN  <<score, classify(score)>>

\* mock_predict(features) with the value u drawn by random.uniform.
mock_predict(f, u) ==
    LET score == add_jitter(raw_score(f), u)
    IN  <<score, classify(score)>>

(***************************************************************************)
(* get_recommendation                                                      *)
(***************************************************************************)
recs ==
    [Critical |-> "Immediate intervention - Offer payment holiday or loan restructuring",
     High     |-> "Priority contact - Propose debt consolidation plan",
     Medium   |-> "Schedule check-in call - Offer financial counseling",
     Low      |-> "Continue standard monitoring"]

\* Mutant: recs.get(risk_level) without the default.
get_recommendation_no_default(level) ==
    IF level \in DOMAIN recs THEN recs[level] ELSE None

\* Mutant: the Critical key misspelt, so that Critical falls to the default.
get_recommendation_misspelt_key(level) ==
    IF level \in DOMAIN recs \ {"Critical"} THEN recs[level] ELSE "Monitor regularly"

get_recommendation(level) ==
    IF level \in DOMAIN recs THEN recs[level] ELSE "Monitor regularly"

COLORS ==
    [Critical |-> "#FF4B4B", High |-> "#FFA500", Medium |-> "#FFD700", Low |-> "#4CAF50"]

(***************************************************************************)
(* The factors table's Impact column.                                      *)
(***************************************************************************)
\* Mutant: the thresholds compared with >= instead of >.
impact_inclusive(value, high, medium) ==
    IF value >= high THEN "High" ELSE IF value >= medium THEN "Medium" ELSE "Low"

\* One row: 'High' if value > high else 'Medium' if value > medium else 'Low'.
impact(value, high, medium) ==
    IF value > high THEN "High" ELSE IF value > medium THEN "Medium" ELSE "Low"

\* Mutant: the Utility Delay row reads the salary delay slider.
impact_column_wrong_slider(f) ==
    << impact(f.salary_delay_days, 15, 7),
       impact(f.savings_drop_pct, 500, 200),
       impact(f.salary_delay_days, 15, 7),
       impact(f.discretionary_spend_drop_pct, 500, 200),
       impact(f.atm_withdrawal_increase, 10, 5),
       impact(f.upi_lending_txn_count, 5, 2),
       impact(f.failed_autodebit_count, 2, 0) >>

\* The seven rows, in the order of the Factor column.
impact_column(f) ==
    << impact(f.salary_delay_days, 15, 7),
       impact(f.savings_drop_pct, 500, 200),
       impact(f.utility_payment_delay_days, 15, 7),
       impact(f.discretionary_spend_drop_pct, 500, 200),
       impact(f.atm_withdrawal_increase, 10, 5),
       impact(f.upi_lending_txn_count, 5, 2),
       impact(f.failed_autodebit_count, 2, 0) >>

(***************************************************************************)
(* The script's runs.                                                      *)
(***************************************************************************)
\* The features dict built from the sliders.
features ==
    [salary_delay_days            |-> salary_delay,
     savings_drop_pct             |-> savings_drop,
     utility_payment_delay_days   |-> utility_delay,
     discretionary_spend_drop_pct |-> spending_drop,
     atm_withdrawal_increase      |-> atm_increase,
     upi_lending_txn_count        |-> upi_lending,
     failed_autodebit_count       |-> failed_debits]

Init ==
    /\ salary_delay = 0
    /\ savings_drop = 0
    /\ utility_delay = 0
    /\ spending_drop = 0
    /\ atm_increase = 0
    /\ upi_lending = 0
    /\ failed_debits = 0
    /\ analyze_btn = FALSE
    /\ jitter = None
    /\ draws = 0
    /\ risk_score = None
    /\ risk_level = None
    /\ recommendation = None
    /\ Impact = None
    /\ calls = <<>>

\* A run that the button did not trigger: the else branch, nothing is computed.
RunWithoutClick ==
    /\ analyze_btn' = FALSE
    /\ jitter' = None
    /\ risk_score' = None
    /\ risk_level' = None
    /\ recommendation' = None
    /\ Impact' = None
    /\ UNCHANGED <<draws, calls>>

SetSalaryDelay ==
    /\ \E v \in SalaryDelayValues \ {salary_delay} : salary_delay' = v
    /\ UNCHANGED <<savings_drop, utility_delay, spending_drop, atm_increase,
                   upi_lending, failed_debits>>
    /\ RunWithoutClick

SetSavingsDrop ==
    /\ \E v \in SavingsDropValues \ {savings_drop} : savings_drop' = v
    /\ UNCHANGED <<salary_delay, utility_delay, spending_drop, atm_increase,
                   upi_lending, failed_debits>>
    /\ RunWithoutClick

SetUtilityDelay ==
    /\ \E v \in UtilityDelayValues \ {utility_delay} : utility_delay' = v
    /\ UNCHANGED <<salary_delay, savings_drop, spending_drop, atm_increase,
                   upi_lending, failed_debits>>
    /\ RunWithoutClick

SetSpendingDrop ==
    /\ \E v \in SpendingDropValues \ {spending_drop} : spending_drop' = v
    /\ UNCHANGED <<salary_delay, savings_drop, utility_delay, atm_increase,
                   upi_lending, failed_debits>>
    /\ RunWithoutClick

SetAtmIncrease ==
    /\ \E v \in AtmIncreaseValues \ {atm_increase} : atm_increase' = v
    /\ UNCHANGED <<salary_delay, savings_drop, utility_delay, spending_drop,
                   upi_lending, failed_debits>>
    /\ RunWithoutClick

SetUpiLending ==
    /\ \E v \in UpiLendingValues \ {upi_lending} : upi_lending' = v
    /\ UNCHANGED <<salary_delay, savings_drop, utility_delay, spending_drop,
                   atm_increase, failed_debits>>
    /\ RunWithoutClick

SetFailedDebits ==
    /\ \E v \in FailedDebitsValues \ {failed_debits} : failed_debits' = v
    /\ UNCHANGED <<salary_delay, savings_drop, utility_delay, spending_drop,
                   atm_increase, upi_lending>>
    /\ RunWithoutClick

\* Another widget (the customer id field) changed while results were shown.
EditCustomerId ==
    /\ analyze_btn
    /\ UNCHANGED sliders
    /\ RunWithoutClick

\* The click on Analyze Risk: the run with analyze_btn True.
AnalyzeRisk ==
    /\ draws < MaxDraws
    /\ \E u \in JitterValues :
         LET prediction == mock_predict(features, u)
         IN  /\ jitter' = u
             /\ risk_score' = prediction[1]
             /\ risk_level' = prediction[2]
             \* COLORS[risk_level] raises KeyError on a miss and ends the run.
             /\ IF prediction[2] \in DOMAIN COLORS
                THEN /\ recommendation' = get_recommendation(prediction[2])
                     /\ Impact' = impact_column(features)
                ELSE /\ recommendation' = None
                     /\ Impact' = None
    /\ analyze_btn' = TRUE
    /\ draws' = draws + 1
    /\ UNCHANGED <<sliders, calls>>

Next ==
    \/ SetSalaryDelay
    \/ SetSavingsDrop
    \/ SetUtilityDelay
    \/ SetSpendingDrop
    \/ SetAtmIncrease
    \/ SetUpiLending
    \/ SetFailedDebits
    \/ EditCustomerId
    \/ AnalyzeRisk

Spec == Init /\ [][Next]_vars

(***************************************************************************)
(* get_recommendation called directly, on any argument.                    *)
(***************************************************************************)
CallGetRecommendation ==
    /\ Len(calls) < MaxCalls
    /\ \E level \in LevelInputs :
         calls' = Append(calls, <<level, get_recommendation(level)>>)
    /\ UNCHANGED <<sliders, analyze_btn, jitter, draws, outputs>>

NextRec == CallGetRecommendation

SpecRec == Init /\ [][NextRec]_vars

(***************************************************************************)
(* Claims.                                                                 *)
(***************************************************************************)
\* The weighted sum as the specification states it, weights in thousandths.
StatedRaw ==
    30 * salary_delay + (400 * savings_drop) \div 1000 + 20 * utility_delay +
    (200 * spending_drop) \div 1000 + 20 * atm_increase + 50 * upi_lending +
    80 * failed_debits

\* Low < Medium < High < Critical.
Rank(level) ==
    CASE level = "Low" -> 0
      [] level = "Medium" -> 1
      [] level = "High" -> 2
      [] level = "Critical" -> 3

Dist(a, b) == IF a >= b THEN a - b ELSE b - a

\* The impact label as the specification's table states it.
StatedImpact(value, high, medium) ==
    CASE value > high -> "High"
      [] value > medium /\ ~(value > high) -> "Medium"
      [] OTHER -> "Low"

\* C1: every risk_score that an evaluation returns lies in [0.0, 1.0].
C1_ScoreInUnitInterval ==
    analyze_btn => (0 <= risk_score /\ risk_score <= One)

\* C2: risk_score = min(1.0, raw + jitter) with raw the weighted sum of the
\* stated weights: never above 1.0, exactly 1.0 when raw + jitter >= 1.0 and
\* raw + jitter otherwise.
C2_ScoreIsClampedSum ==
    analyze_btn =>
        /\ risk_score <= One
        /\ (StatedRaw + jitter >= One => risk_score = One)
        /\ (StatedRaw + jitter < One => risk_score = StatedRaw + jitter)

\* C2 witness: an evaluation whose raw + jitter lies above 1.0.
C2_Witness ==
    analyze_btn /\ StatedRaw + jitter > One /\ risk_score = One

\* C3: risk_level is decided by risk_score alone, with inclusive lower
\* boundaries 0.75, 0.50 and 0.25, and so is monotonic in the score.
C3_LevelBands ==
    analyze_btn =>
        /\ (risk_level = "Critical" <=> risk_score >= 750)
        /\ (risk_level = "High" <=> (500 <= risk_score /\ risk_score < 750))
        /\ (risk_level = "Medium" <=> (250 <= risk_score /\ risk_score < 500))
        /\ (risk_level = "Low" <=> risk_score < 250)
        /\ \A u \in JitterValues :
             LET other == mock_predict(features, u)
             IN  other[1] >= risk_score => Rank(other[2]) >= Rank(risk_level)

\* C3 witness: a score exactly on the boundary 0.75, shown as Critical.
C3_Witness ==
    analyze_btn /\ risk_score = 750 /\ risk_level = "Critical"

\* C4: get_recommendation maps the four levels to their four distinct strings
\* and every other argument to "Monitor regularly", the same argument always
\* to the same string.
C4_RecommendationTotal ==
    /\ \A i \in 1..Len(calls) :
         LET arg == calls[i][1]
             out == calls[i][2]
         IN  /\ arg = "Critical" =>
                   out = "Immediate intervention - Offer payment holiday or loan restructuring"
             /\ arg = "High" => out = "Priority contact - Propose debt consolidation plan"
             /\ arg = "Medium" => out = "Schedule check-in call - Offer financial counseling"
             /\ arg = "Low" => out = "Continue standard monitoring"
             /\ arg \notin {"Critical", "High", "Medium", "Low"} => out = "Monitor regularly"
    /\ \A i, j \in 1..Len(calls) : calls[i][1] = calls[j][1] => calls[i][2] = calls[j][2]
    /\ \A i, j \in 1..Len(calls) :
         (calls[i][1] # calls[j][1] /\ {calls[i][1], calls[j][1]} \subseteq DOMAIN COLORS)
             => calls[i][2] # calls[j][2]

\* C4 witness: an unknown level and then a known one were looked up.
C4_Witness ==
    /\ Len(calls) = 2
    /\ calls[1] = <<"Unknown", "Monitor regularly">>
    /\ calls[2][1] = "High"

\* C5, from the default record: with one slider at any position of its whole
\* domain and all else 0, that slider's row has the stated label.
C5_EveryPosition ==
    /\ \A v \in salary_delay_slider :
         impact_column([features EXCEPT !.salary_delay_days = v])[1]
             = StatedImpact(v, 15, 7)
    /\ \A v \in savings_drop_slider :
         impact_column([features EXCEPT !.savings_drop_pct = v])[2]
             = StatedImpact(v, 500, 200)
    /\ \A v \in utility_delay_slider :
         impact_column([features EXCEPT !.utility_payment_delay_days = v])[3]
             = StatedImpact(v, 15, 7)
    /\ \A v \in spending_drop_slider :
         impact_column([features EXCEPT !.discretionary_spend_drop_pct = v])[4]
             = StatedImpact(v, 500, 200)
    /\ \A v \in atm_increase_slider :
         impact_column([features EXCEPT !.atm_withdrawal_increase = v])[5]
             = StatedImpact(v, 10, 5)
    /\ \A v \in upi_lending_slider :
         impact_column([features EXCEPT !.upi_lending_txn_count = v])[6]
             = StatedImpact(v, 5, 2)
    /\ \A v \in failed_debits_slider :
         impact_column([features EXCEPT !.failed_autodebit_count = v])[7]
             = StatedImpact(v, 2, 0)

\* C5: each row's impact is High above the high threshold, Medium above the
\* medium threshold and Low otherwise; a value on a threshold takes the lower
\* label.
C5_ImpactThresholds ==
    analyze_btn =>
        /\ Impact[1] = StatedImpact(salary_delay, 15, 7)
        /\ Impact[2] = StatedImpact(savings_drop, 500, 200)
        /\ Impact[3] = StatedImpact(utility_delay, 15, 7)
        /\ Impact[4] = StatedImpact(spending_drop, 500, 200)
        /\ Impact[5] = StatedImpact(atm_increase, 10, 5)
        /\ Impact[6] = StatedImpact(upi_lending, 5, 2)
        /\ Impact[7] = StatedImpact(failed_debits, 2, 0)
        /\ (salary_delay = 16 => Impact[1] = "High")
        /\ (salary_delay = 8 => Impact[1] = "Medium")
        /\ (salary_delay = 7 => Impact[1] = "Low")
        /\ sliders = <<0, 0, 0, 0, 0, 0, 0>> => C5_EveryPosition

\* C5 witness: values on a threshold (7 days, 50 %, 10 withdrawals, 0 failed
\* debits) and next to one (8 days of utility delay) in one table.
C5_Witness ==
    /\ analyze_btn
    /\ salary_delay = 7 /\ Impact[1] = "Low"
    /\ savings_drop = 500 /\ Impact[2] = "Medium"
    /\ utility_delay = 8 /\ Impact[3] = "Medium"
    /\ atm_increase = 10 /\ Impact[5] = "Medium"
    /\ failed_debits = 0 /\ Impact[7] = "Low"

\* C6, for the record g that differs from the sliders' record in field i alone:
\* the other six labels are the same, and under any jitter the level differs
\* only if the score differs.
C6_VariantAgrees(i, g) ==
    /\ LET column == impact_column(g)
       IN  \A k \in (1..7) \ {i} : column[k] = Impact[k]
    /\ \A u \in JitterValues :
         LET other == mock_predict(g, u)
         IN  other[2] # risk_level => other[1] # risk_score

\* C6: against an evaluation of a record that differs in exactly one field,
\* under any jitter, the other six impact labels are the same, and the level
\* differs only if the score differs.
C6_ImpactIndependent ==
    analyze_btn =>
        /\ \A v \in SalaryDelayValues \ {salary_delay} :
             C6_VariantAgrees(1, [features EXCEPT !.salary_delay_days = v])
        /\ \A v \in SavingsDropValues \ {savings_drop} :
             C6_VariantAgrees(2, [features EXCEPT !.savings_drop_pct = v])
        /\ \A v \in UtilityDelayValues \ {utility_delay} :
             C6_VariantAgrees(3, [features EXCEPT !.utility_payment_delay_days = v])
        /\ \A v \in SpendingDropValues \ {spending_drop} :
             C6_VariantAgrees(4, [features EXCEPT !.discretionary_spend_drop_pct = v])
        /\ \A v \in AtmIncreaseValues \ {atm_increase} :
             C6_VariantAgrees(5, [features EXCEPT !.atm_withdrawal_increase = v])
        /\ \A v \in UpiLendingValues \ {upi_lending} :
             C6_VariantAgrees(6, [features EXCEPT !.upi_lending_txn_count = v])
        /\ \A v \in FailedDebitsValues \ {failed_debits} :
             C6_VariantAgrees(7, [features EXCEPT !.failed_autodebit_count = v])

\* C6 witness: an evaluation for which moving the salary delay alone to 16
\* days alters that row's label and the level, and no other row.
C6_Witness ==
    /\ analyze_btn
    /\ salary_delay = 0
    /\ Impact[1] = "Low"
    /\ LET g == [features EXCEPT !.salary_delay_days = 16]
       IN  /\ impact_column(g)[1] = "High"
           /\ mock_predict(g, jitter)[2] # risk_level
           /\ \A k \in 2..7 : impact_column(g)[k] = Impact[k]

C8_AllMaxima ==
    (analyze_btn /\ sliders = <<30, 1000, 30, 1000, 20, 10, 5>> /\ jitter = 0) =>
        /\ raw_score(features) = 3400
        /\ risk_score = 1000
        /\ risk_level = "Critical"
        /\ recommendation =
               "Immediate intervention - Offer payment holiday or loan restructuring"
        /\ Impact = <<"High", "High", "High", "High", "High", "High", "High">>

\* C8 witness: the all-maxima record evaluated with jitter 0.0.
C8_Witness ==
    analyze_btn /\ sliders = <<30, 1000, 30, 1000, 20, 10, 5>> /\ jitter = 0

\* C9: in the pipeline the level is one of the four keys of COLORS, the
\* default recommendation never appears, and the recommendation shown is the
\* one mapped to the level shown.
C9_LevelClosed ==
    analyze_btn =>
        /\ risk_level \in {"Critical", "High", "Medium", "Low"}
        /\ risk_level \in DOMAIN COLORS
        /\ recommendation # "Monitor regularly"
        /\ recommendation # None
        /\ recommendation = recs[risk_level]

\* C9 witness: a Critical evaluation with its recommendation.
C9_Witness ==
    /\ analyze_btn
    /\ risk_level = "Critical"
    /\ recommendation = "Immediate intervention - Offer payment holiday or loan restructuring"

\* C10: two evaluations of one record differ by at most one band, and not at
\* all when the raw sum is more than 0.05 away from 0.25, 0.50 and 0.75.
C10_JitterOneBand ==
    analyze_btn =>
        \A u \in JitterValues :
            LET other == mock_predict(features, u)[2]
            IN  /\ Dist(Rank(other), Rank(risk_level)) <= 1
                /\ (\A t \in {250, 500, 750} : Dist(StatedRaw, t) > 50)
                       => other = risk_level

\* C10 witness: a raw sum on the boundary 0.25 that the jitter -0.05 put in
\* Low and the jitter 0.05 would put in Medium.
C10_Witness ==
    /\ analyze_btn
    /\ StatedRaw = 250
    /\ jitter = 0 - 50
    /\ risk_level = "Low"
    /\ mock_predict(features, 50)[2] = "Medium"

====
